---- MODULE Spec2Model ----
(***************************************************************************)
(* Model of MPR121_Helper (examples/mpr121-capacitive-stream/              *)
(* MPR121_Helper.h): a wrapper that caches two generations of the 16-bit   *)
(* touch mask and one generation of the 12 filtered readings of an         *)
(* Adafruit_MPR121 driver, and answers bit-test and edge queries from the  *)
(* cache.  The driver is the environment: what it returns is an input of   *)
(* the refresh actions, and what it receives is recorded in drv* variables.*)
(***************************************************************************)
EXTENDS Integers, Sequences, FiniteSets

VARIABLES
  currentTouchData,   \* uint16_t currentTouchData
  lastTouchData,      \* uint16_t lastTouchData
  filteredDataCache,  \* uint16_t filteredDataCache[12]
  drvTouched,         \* the last (at most two) masks sensor->touched() returned
  drvFiltered,        \* <<>> or <<f>>: the readings sensor->filteredData(i) returned last
  drvThresholds,      \* <<>> or <<touch, release>>: last sensor->setThresholds arguments
  lastCall            \* the method called last, its arguments, result and driver calls

vars == <<currentTouchData, lastTouchData, filteredDataCache,
          drvTouched, drvFiltered, drvThresholds, lastCall>>

----------------------------------------------------------------------------
(* Bounds of the model *)

\* channels 0..MaxLowChan (and channel 11) can be set in a driver mask
MaxLowChan == 0
\* the driver's readings are 10*p*(i+1) for p in 1..MaxRamp, or 65535-i
MaxRamp == 1

(* Program constants *)

NumElectrodes == 12
DefaultRelease == 20
DefaultTouch == 40

Electrodes == 0 .. (NumElectrodes - 1)
UInt8 == 0 .. 255
UInt16Max == 65535

----------------------------------------------------------------------------
(* Inputs *)

RECURSIVE SumBits(_)
SumBits(S) ==
  IF S = {} THEN 0
  ELSE LET b == CHOOSE x \in S : TRUE IN 2^b + SumBits(S \ {b})

\* masks with any of the bits 0..MaxLowChan and 11, with bits 12..15 clear or set
DriverMasks ==
  { SumBits(S) + h : S \in SUBSET ((0 .. MaxLowChan) \cup {NumElectrodes - 1}),
                     h \in {0, 61440} }

Ramp(p) == [i \in Electrodes |-> (10 * p * (i + 1)) % (UInt16Max + 1)]
TopReadings == [i \in Electrodes |-> UInt16Max - i]
DriverReadings == { Ramp(p) : p \in 1 .. MaxRamp } \cup { TopReadings }

\* electrode arguments of the query calls: the last in range and the first
\* out of range
QueryElectrodes == {NumElectrodes - 1, NumElectrodes}

\* threshold arguments, different from each other and from both defaults
ThresholdPairs == {<<50, 7>>}
ThresholdLevels == {50}

----------------------------------------------------------------------------
(* Bit operations of the code *)

\* data & (1 << electrode) for a uint16_t data and electrode in 0..11: the
\* shifted 1 has the one bit 2^electrode, which the AND keeps when data has it
AndShl1(data, electrode) ==
  IF (data \div (2^electrode)) % 2 = 1 THEN 2^electrode ELSE 0

----------------------------------------------------------------------------
(* Queries *)

getTouchData(electrode) ==
  IF electrode > 11 THEN FALSE
  ELSE AndShl1(currentTouchData, electrode) # 0

\* isTouched with the range check off by one (electrode > 10)
isTouched_gt10(electrode) ==
  IF electrode > 10 THEN FALSE
  ELSE AndShl1(currentTouchData, electrode) # 0

isTouched(electrode) ==
  IF electrode > 11 THEN FALSE
  ELSE AndShl1(currentTouchData, electrode) # 0

wasTouched(electrode) ==
  IF electrode > 11 THEN FALSE
  ELSE AndShl1(lastTouchData, electrode) # 0

\* isNewTouch reporting a held touch (the negation of wasTouched dropped)
isNewTouch_held(electrode) == isTouched(electrode) /\ wasTouched(electrode)

isNewTouch(electrode) == isTouched(electrode) /\ ~wasTouched(electrode)

\* isNewRelease written as a copy of isNewTouch
isNewRelease_copy(electrode) == isTouched(electrode) /\ ~wasTouched(electrode)

isNewRelease(electrode) == ~isTouched(electrode) /\ wasTouched(electrode)

\* the loop of getNumTouches stopping one electrode early (i < 11)
RECURSIVE NumTouchesLoop_lt11(_, _)
NumTouchesLoop_lt11(i, count) ==
  IF i < 11
  THEN NumTouchesLoop_lt11(i + 1, IF isTouched(i) THEN (count + 1) % 256 ELSE count)
  ELSE count

\* the loop of getNumTouches from index i with the count so far
RECURSIVE NumTouchesLoop(_, _)
NumTouchesLoop(i, count) ==
  IF i < 12
  THEN NumTouchesLoop(i + 1, IF isTouched(i) THEN (count + 1) % 256 ELSE count)
  ELSE count

getNumTouches == NumTouchesLoop(0, 0)

\* getFilteredData with the range check off by one (electrode > 12): index 12
\* is read, one past the end of the array
FilteredDataAccess_gt12(electrode) ==
  IF electrode > 12 THEN [ret |-> 0, read |-> {}]
  ELSE [ret |-> IF electrode \in DOMAIN filteredDataCache
                THEN filteredDataCache[electrode] ELSE 0,
        read |-> {electrode}]

\* the result of getFilteredData and the cache indices it reads
FilteredDataAccess(electrode) ==
  IF electrode > 11 THEN [ret |-> 0, read |-> {}]
  ELSE [ret |-> filteredDataCache[electrode], read |-> {electrode}]

getFilteredData(electrode) == FilteredDataAccess(electrode).ret

----------------------------------------------------------------------------
(* State after construction *)

Call(op, args, ret, sent) == [op |-> op, args |-> args, ret |-> ret, sent |-> sent]

Init ==
  /\ currentTouchData = 0
  /\ lastTouchData = 0
  /\ filteredDataCache = [i \in Electrodes |-> 0]
  /\ drvTouched = <<>>
  /\ drvFiltered = <<>>
  /\ drvThresholds = <<>>
  /\ lastCall = Call("MPR121_Helper", <<>>, <<>>, <<>>)

----------------------------------------------------------------------------
(* Refresh operations *)

\* keep the last two entries of the log of returned masks
Log2(log, m) == IF Len(log) < 2 THEN Append(log, m) ELSE <<log[2], m>>

\* updateTouchData with its two assignments in the other order
updateTouchData_swapped(m) ==
  /\ currentTouchData' = m
  /\ lastTouchData' = m
  /\ drvTouched' = Log2(drvTouched, m)
  /\ lastCall' = Call("updateTouchData", <<>>, <<>>, <<>>)
  /\ UNCHANGED <<filteredDataCache, drvFiltered, drvThresholds>>

\* updateTouchData without the copy to lastTouchData
updateTouchData_nosave(m) ==
  /\ currentTouchData' = m
  /\ drvTouched' = Log2(drvTouched, m)
  /\ lastCall' = Call("updateTouchData", <<>>, <<>>, <<>>)
  /\ UNCHANGED <<lastTouchData, filteredDataCache, drvFiltered, drvThresholds>>

\* updateTouchData, the driver's touched() returning m
updateTouchData(m) ==
  /\ lastTouchData' = currentTouchData
  /\ currentTouchData' = m
  /\ drvTouched' = Log2(drvTouched, m)
  /\ lastCall' = Call("updateTouchData", <<>>, <<>>, <<>>)
  /\ UNCHANGED <<filteredDataCache, drvFiltered, drvThresholds>>

\* the loop of updateFilteredData stopping one electrode early (i < 11)
RECURSIVE FilteredLoop_lt11(_, _, _)
FilteredLoop_lt11(cache, i, f) ==
  IF i < 11
  THEN FilteredLoop_lt11([cache EXCEPT ![i] = f[i]], i + 1, f)
  ELSE cache

\* the loop of updateFilteredData from index i, filteredData(i) returning f[i]
RECURSIVE FilteredLoop(_, _, _)
FilteredLoop(cache, i, f) ==
  IF i < 12
  THEN FilteredLoop([cache EXCEPT ![i] = f[i]], i + 1, f)
  ELSE cache

\* updateFilteredData also advancing the touch generation
updateFilteredData_coupled(f) ==
  /\ filteredDataCache' = FilteredLoop(filteredDataCache, 0, f)
  /\ drvFiltered' = <<f>>
  /\ lastTouchData' = currentTouchData
  /\ lastCall' = Call("updateFilteredData", <<>>, <<>>, <<>>)
  /\ UNCHANGED <<currentTouchData, drvTouched, drvThresholds>>

updateFilteredData(f) ==
  /\ filteredDataCache' = FilteredLoop(filteredDataCache, 0, f)
  /\ drvFiltered' = <<f>>
  /\ lastCall' = Call("updateFilteredData", <<>>, <<>>, <<>>)
  /\ UNCHANGED <<currentTouchData, lastTouchData, drvTouched, drvThresholds>>

----------------------------------------------------------------------------
(* Query calls: no field is written, the result is returned *)

Query(op, args, ret) ==
  /\ lastCall' = Call(op, args, ret, <<>>)
  /\ UNCHANGED <<currentTouchData, lastTouchData, filteredDataCache,
                 drvTouched, drvFiltered, drvThresholds>>

CallGetTouchData(e) == Query("getTouchData", <<e>>, getTouchData(e))
CallIsTouched(e) == Query("isTouched", <<e>>, isTouched(e))
CallWasTouched(e) == Query("wasTouched", <<e>>, wasTouched(e))
CallIsNewTouch(e) == Query("isNewTouch", <<e>>, isNewTouch(e))
CallIsNewRelease(e) == Query("isNewRelease", <<e>>, isNewRelease(e))
CallGetNumTouches == Query("getNumTouches", <<>>, getNumTouches)
CallGetFilteredData(e) == Query("getFilteredData", <<e>>, getFilteredData(e))

----------------------------------------------------------------------------
(* Threshold calls *)

\* sensor->setThresholds(touch, release) made by method op; the call record
\* keeps the thresholds the driver had before
SensorSetThresholds(op, args, touch, release) ==
  /\ drvThresholds' = <<touch, release>>
  /\ lastCall' = Call(op, args, drvThresholds, <<<<touch, release>>>>)
  /\ UNCHANGED <<currentTouchData, lastTouchData, filteredDataCache,
                 drvTouched, drvFiltered>>

setThresholds(touchThreshold, releaseThreshold) ==
  SensorSetThresholds("setThresholds", <<touchThreshold, releaseThreshold>>,
                      touchThreshold, releaseThreshold)

\* setTouchThreshold passing its two arguments in the other order
setTouchThreshold_swapped(threshold) ==
  SensorSetThresholds("setTouchThreshold", <<threshold>>, DefaultRelease, threshold)

setTouchThreshold(threshold) ==
  SensorSetThresholds("setTouchThreshold", <<threshold>>, threshold, DefaultRelease)

setReleaseThreshold(threshold) ==
  SensorSetThresholds("setReleaseThreshold", <<threshold>>, DefaultTouch, threshold)

----------------------------------------------------------------------------

Next ==
  \/ \E m \in DriverMasks : updateTouchData(m)
  \/ \E f \in DriverReadings : updateFilteredData(f)
  \/ \E e \in QueryElectrodes : CallGetTouchData(e)
  \/ \E e \in QueryElectrodes : CallIsTouched(e)
  \/ \E e \in QueryElectrodes : CallWasTouched(e)
  \/ \E e \in QueryElectrodes : CallIsNewTouch(e)
  \/ \E e \in QueryElectrodes : CallIsNewRelease(e)
  \/ CallGetNumTouches
  \/ \E e \in QueryElectrodes : CallGetFilteredData(e)
  \/ \E p \in ThresholdPairs : setThresholds(p[1], p[2])
  \/ \E t \in ThresholdLevels : setTouchThreshold(t)
  \/ \E t \in ThresholdLevels : setReleaseThreshold(t)

Spec == Init /\ [][Next]_vars

TypeOK ==
  /\ currentTouchData \in 0 .. UInt16Max
  /\ lastTouchData \in 0 .. UInt16Max
  /\ DOMAIN filteredDataCache = Electrodes
  /\ \A i \in Electrodes : filteredDataCache[i] \in 0 .. UInt16Max
----------------------------------------------------------------------------
(* Properties *)

\* the set of the bits set in a mask, from its binary digits
RECURSIVE BitsFrom(_, _)
BitsFrom(m, c) ==
  IF m = 0 THEN {}
  ELSE (IF m % 2 = 1 THEN {c} ELSE {}) \cup BitsFrom(m \div 2, c + 1)

Bits(m) == BitsFrom(m, 0)

\* the mask of the most recent updateTouchData and of the one before it; a
\* generation that has not happened yet counts as the all-zero mask
RecentMask == IF drvTouched = <<>> THEN 0 ELSE drvTouched[Len(drvTouched)]
EarlierMask == IF Len(drvTouched) < 2 THEN 0 ELSE drvTouched[1]

ThresholdOps == {"setThresholds", "setTouchThreshold", "setReleaseThreshold"}

\* C1: once updateTouchData has been called twice, lastTouchData is the mask
\* the driver returned at the second most recent call and currentTouchData
\* the mask of the most recent one, so wasTouched(c) is bit c of the former
\* and isTouched(c) bit c of the latter, for every electrode 0..11.
C1_TwoGenerations ==
  Len(drvTouched) = 2 =>
    /\ lastTouchData = drvTouched[1]
    /\ currentTouchData = drvTouched[2]
    /\ LET M1 == Bits(drvTouched[1])
           M2 == Bits(drvTouched[2])
       IN \A c \in Electrodes :
            /\ wasTouched(c) = (c \in M1)
            /\ isTouched(c) = (c \in M2)

C1_Witness ==
  /\ lastCall.op = "updateTouchData"
  /\ Len(drvTouched) = 2
  /\ drvTouched[1] # 0 /\ drvTouched[2] # 0 /\ drvTouched[1] # drvTouched[2]
  /\ wasTouched(0) /\ ~isTouched(0)
  /\ ~wasTouched(11) /\ isTouched(11)

\* C2: after at least one updateTouchData, whatever was called since,
\* isTouched(c) is bit c of the mask the driver returned at the most recent
\* updateTouchData, for every electrode 0..11 and also for masks with bits
\* 12..15 set.
C2_IsTouchedIsRecentBit ==
  drvTouched # <<>> =>
    LET M == Bits(drvTouched[Len(drvTouched)])
    IN \A c \in Electrodes : isTouched(c) = (c \in M)

C2_Witness ==
  /\ drvTouched # <<>>
  /\ drvTouched[Len(drvTouched)] >= 4096
  /\ isTouched(11) /\ ~isTouched(0)
  /\ lastCall.op = "setReleaseThreshold"
  /\ drvFiltered # <<>>

\* C3: isNewTouch(c) holds exactly when bit c is set in the most recent mask
\* and clear in the one before, isNewRelease(c) exactly when it is clear in
\* the most recent and set in the one before, a generation before the first
\* updateTouchData counting as all-zero; before any refresh both are false.
C3_EdgesFollowMasks ==
  /\ LET recent == Bits(RecentMask)
         earlier == Bits(EarlierMask)
     IN \A c \in Electrodes :
          /\ isNewTouch(c) <=> (c \in recent /\ c \notin earlier)
          /\ isNewRelease(c) <=> (c \notin recent /\ c \in earlier)
  /\ drvTouched = <<>> =>
       \A c \in Electrodes : ~isNewTouch(c) /\ ~isNewRelease(c)

C3_Witness ==
  /\ Len(drvTouched) = 2
  /\ isNewTouch(0) /\ isNewRelease(11)
  /\ lastCall.op = "isNewRelease" /\ lastCall.args = <<11>> /\ lastCall.ret = TRUE

\* C4: in no reachable state is there an electrode argument 0..255 for which
\* isNewTouch and isNewRelease are both true.
C4_EdgesExclusive ==
  \A e \in UInt8 : ~(isNewTouch(e) /\ isNewRelease(e))

C4_Witness ==
  /\ isNewTouch(0) /\ isNewRelease(11)
  /\ currentTouchData >= 4096
  /\ drvThresholds # <<>>
  /\ lastCall.op = "updateFilteredData"

\* C5: for every electrode argument 12..255, whatever the cached masks and
\* readings, isTouched, wasTouched, isNewTouch and isNewRelease are false and
\* getFilteredData is 0 and reads no cache entry; the cache has entries 0..11
\* only.
C5_OutOfRangeDefaults ==
  /\ DOMAIN filteredDataCache = 0 .. 11
  /\ \A e \in 12 .. 255 :
       /\ ~isTouched(e) /\ ~wasTouched(e)
       /\ ~isNewTouch(e) /\ ~isNewRelease(e)
       /\ getFilteredData(e) = 0
       /\ FilteredDataAccess(e).read = {}
  /\ \A e \in 0 .. 11 : FilteredDataAccess(e).read \subseteq 0 .. 11

C5_Witness ==
  /\ lastCall.op = "getFilteredData" /\ lastCall.args = <<12>> /\ lastCall.ret = 0
  /\ filteredDataCache[11] # 0
  /\ currentTouchData >= 4096 /\ lastTouchData >= 4096

\* C6: getNumTouches is the number of set bits among bits 0..11 of
\* currentTouchData: it is in 0..12, ignores bits 12..15, and equals the
\* number of electrodes 0..11 for which isTouched is true.
C6_NumTouchesIsPopCount ==
  /\ getNumTouches = Cardinality(Bits(currentTouchData) \cap (0 .. 11))
  /\ getNumTouches = Cardinality({c \in 0 .. 11 : isTouched(c)})
  /\ getNumTouches \in 0 .. 12

C6_Witness ==
  /\ lastCall.op = "getNumTouches" /\ lastCall.ret = 2
  /\ currentTouchData >= 4096
  /\ isTouched(11)

\* C7: after at least one updateFilteredData, getFilteredData(c) is the value
\* the driver's filteredData(c) returned for that electrode during the most
\* recent updateFilteredData, for every electrode 0..11; before the first
\* updateFilteredData it is 0.
C7_FilteredIsLastReading ==
  \A c \in Electrodes :
    getFilteredData(c) = (IF drvFiltered = <<>> THEN 0 ELSE drvFiltered[1][c])

C7_Witness ==
  /\ drvFiltered # <<>>
  /\ \A c \in Electrodes : drvFiltered[1][c] = 10 * (c + 1)
  /\ getFilteredData(5) = 60
  /\ lastCall.op = "getFilteredData" /\ lastCall.args = <<11>> /\ lastCall.ret = 120

\* C8: every threshold call makes exactly one setThresholds call on the
\* driver: setThresholds(t, r) sends (t, r), setTouchThreshold(level) sends
\* (level, 20) and setReleaseThreshold(level) sends (40, level), whatever the
\* thresholds sent before; no other call sends thresholds.
C8_ThresholdsForwarded ==
  /\ lastCall.op = "setThresholds" =>
       /\ lastCall.sent = << <<lastCall.args[1], lastCall.args[2]>> >>
       /\ drvThresholds = <<lastCall.args[1], lastCall.args[2]>>
  /\ lastCall.op = "setTouchThreshold" =>
       /\ lastCall.sent = << <<lastCall.args[1], 20>> >>
       /\ drvThresholds = <<lastCall.args[1], 20>>
  /\ lastCall.op = "setReleaseThreshold" =>
       /\ lastCall.sent = << <<40, lastCall.args[1]>> >>
       /\ drvThresholds = <<40, lastCall.args[1]>>
  /\ lastCall.op \notin ThresholdOps => lastCall.sent = <<>>

C8_Witness ==
  /\ lastCall.op = "setTouchThreshold" /\ lastCall.args = <<50>>
  /\ lastCall.ret = <<50, 7>>
  /\ drvThresholds = <<50, 20>>

\* C9: only updateTouchData changes currentTouchData and lastTouchData, and
\* only updateFilteredData changes filteredDataCache: every other call leaves
\* them as they were, so the queries between two updateTouchData calls see
\* one pair of masks.
C9_Frame ==
  [][ /\ lastCall'.op # "updateTouchData" =>
           UNCHANGED <<currentTouchData, lastTouchData>>
      /\ lastCall'.op # "updateFilteredData" =>
           UNCHANGED filteredDataCache ]_vars

C9_Witness ==
  /\ lastCall.op = "isNewTouch" /\ lastCall.args = <<11>> /\ lastCall.ret = TRUE
  /\ Len(drvTouched) = 2
  /\ drvFiltered # <<>> /\ filteredDataCache[0] # 0
  /\ drvThresholds # <<>>

\* C10: an edge lasts one generation: an electrode 0..11 that is a new touch
\* (a new release) is not a new touch (a new release) after the next
\* updateTouchData, whatever mask the driver returns; and an updateTouchData
\* that gets the same mask as the updateTouchData before it leaves no
\* electrode a new touch or a new release.
C10_EdgeOneGeneration ==
  [][ lastCall'.op = "updateTouchData" =>
        /\ \A c \in Electrodes :
             /\ isNewTouch(c) => ~isNewTouch(c)'
             /\ isNewRelease(c) => ~isNewRelease(c)'
        /\ (drvTouched # <<>> /\ Len(drvTouched') = 2
              /\ drvTouched'[1] = drvTouched'[2]) =>
             \A c \in Electrodes : ~isNewTouch(c)' /\ ~isNewRelease(c)' ]_vars

C10_Witness ==
  /\ lastCall.op = "updateTouchData"
  /\ Len(drvTouched) = 2 /\ drvTouched[1] = drvTouched[2]
  /\ 0 \in Bits(drvTouched[2]) /\ 11 \notin Bits(drvTouched[2])
  /\ isTouched(0) /\ ~isNewTouch(0) /\ ~isNewRelease(11)
====
